---- MODULE Spec2Model ----
(***************************************************************************)
(* A model of the CHIP-8 interpreter of RyanSafa/chip8-emulator-rust:      *)
(* the machine (src/src/chip8.rs), the display buffer and key table of the *)
(* I/O layer (src/src/chip8_io.rs) and the frame loop (src/src/main.rs).   *)
(***************************************************************************)
EXTENDS Integers, Sequences, FiniteSets, TLC

(***************************************************************************)
(* Program constants.                                                      *)
(***************************************************************************)
NUM_REGISTERS == 16
MEMORY_SIZE == 4096
ROM_START_ADDR == 512
FONT_START_ADDR == 80
FONT_SIZE == 80
DISPLAY_WIDTH == 64
DISPLAY_HEIGHT == 32
NUM_KEYS == 16
\* the default of --instructions-per-second
INSTRUCTIONS_PER_SECOND_DEFAULT == 11
\* default colours of the command line, RGBA 0xFFFFFFFF and 0x000000FF; a u32
\* is kept as its two 16-bit halves
primary_color == [hi |-> \hFFFF, lo |-> \hFFFF]
secondary_color == [hi |-> \h0000, lo |-> \h00FF]

KEYS ==
  <<"0", "1", "2", "3", "4", "5", "6", "7", "8", "9", "A", "B", "C", "D", "E", "F">>

FONT ==
  << 240, 144, 144, 144, 240,   32,  96,  32,  32, 112,
     240,  16, 240, 128, 240,  240,  16, 240,  16, 240,
     144, 144, 240,  16,  16,  240, 128, 240,  16, 240,
     240, 128, 240, 144, 240,  240,  16,  32,  64,  64,
     240, 144, 240, 144, 240,  240, 144, 240,  16, 240,
     240, 144, 240, 144, 144,  224, 144, 224, 144, 224,
     240, 128, 128, 128, 240,  224, 144, 144, 144, 224,
     240, 128, 240, 128, 240,  240, 128, 240, 128, 128 >>

(***************************************************************************)
(* Bounds of the model.                                                    *)
(***************************************************************************)
\* the call stack (a Vec) is unbounded in the code; calls stop at this depth
MaxStack == 3
\* the command-line value N of instructions per frame is drawn from 1..MaxIps
MaxIps == 2
\* window events handled by one poll_input
MaxEvents == 1
\* the calls of update_timers since a timer was set are counted up to here
MaxCalls == 9

(***************************************************************************)
(* Fixed-width arithmetic: u8 and u16 values are naturals below 2^w.       *)
(***************************************************************************)
Pow2(k) == 2 ^ k

\* a & b, a | b, a ^ b on w-bit operands, bit by bit
RECURSIVE BitAnd(_, _, _)
BitAnd(a, b, w) ==
  IF w = 0 THEN 0
  ELSE (IF a % 2 = 1 /\ b % 2 = 1 THEN 1 ELSE 0) + 2 * BitAnd(a \div 2, b \div 2, w - 1)

RECURSIVE BitOr(_, _, _)
BitOr(a, b, w) ==
  IF w = 0 THEN 0
  ELSE (IF a % 2 = 1 \/ b % 2 = 1 THEN 1 ELSE 0) + 2 * BitOr(a \div 2, b \div 2, w - 1)

RECURSIVE BitXor(_, _, _)
BitXor(a, b, w) ==
  IF w = 0 THEN 0
  ELSE (IF a % 2 # b % 2 THEN 1 ELSE 0) + 2 * BitXor(a \div 2, b \div 2, w - 1)

\* a >> k, and (a << k) truncated to w bits
Shr(a, k) == a \div Pow2(k)
Shl(a, k, w) == (a * Pow2(k)) % Pow2(w)

wrapping_add(a, b) == (a + b) % 256
wrapping_sub(a, b) == (a - b + 256) % 256

(***************************************************************************)
(* Opcode::new, get_nn, get_nnn.                                           *)
(***************************************************************************)
Opcode_new(raw) ==
  [ raw     |-> raw,
    op_type |-> Shr(BitAnd(raw, \hF000, 16), 12) % 256,
    x       |-> Shr(BitAnd(raw, \h0F00, 16), 8) % 256,
    y       |-> Shr(BitAnd(raw, \h00F0, 16), 4) % 256,
    n       |-> BitAnd(raw, \h000F, 16) % 256 ]

get_nn(opcode) == BitAnd(opcode.raw, \h00FF, 16) % 256
\* get_nnn with the mask of get_nn
get_nnn_byte_mask(opcode) == BitAnd(opcode.raw, \h00FF, 16)

get_nnn(opcode) == BitAnd(opcode.raw, \h0FFF, 16)

(***************************************************************************)
(* Byte arrays.  memory: [u8; MEMORY_SIZE] and display_buffer: [u8; W*H*4] *)
(* are functions from index to byte.  A function is written down without   *)
(* the indices that hold the byte the constructor put there (0 in memory,  *)
(* the bytes of the secondary colour in the display buffer): MemAt and     *)
(* BufAt read an index, MemStore and BufStore write one and keep that      *)
(* form, so two arrays are equal exactly when they are written down the    *)
(* same.                                                                   *)
(***************************************************************************)
EmptyArray == [k \in {} |-> 0]

\* array without index, and array with value at index
Without(array, index) == [k \in DOMAIN array \ {index} |-> array[k]] @@ EmptyArray
With(array, index, value) == (index :> value) @@ array

\* Chip8::new: memory: [0; MEMORY_SIZE]
MemoryFill(index) == 0

MemAt(memory, index) ==
  IF index \in DOMAIN memory THEN memory[index] ELSE MemoryFill(index)

MemStore(memory, index, value) ==
  IF value = MemoryFill(index) THEN Without(memory, index) ELSE With(memory, index, value)

(***************************************************************************)
(* Chip8IO: the display buffer (4 bytes per cell, row-major) and the keys. *)
(***************************************************************************)
\* the four bytes a colour is stored as, most significant first
write_color_to_slice(color) ==
  << Shr(BitAnd(color.hi, \hFF00, 16), 8) % 256,
     BitAnd(color.hi, \h00FF, 16) % 256,
     Shr(BitAnd(color.lo, \hFF00, 16), 8) % 256,
     BitAnd(color.lo, \h00FF, 16) % 256 >>

construct_color_from_slice(pixels) ==
  [ hi |-> BitOr(Shl(pixels[1], 8, 16), pixels[2], 16),
    lo |-> BitOr(Shl(pixels[3], 8, 16), pixels[4], 16) ]

PixelIndex(row, col) == ((row * DISPLAY_WIDTH) + col) * 4

\* Chip8IO::new writes the secondary colour to every cell
DisplayFill(index) == write_color_to_slice(secondary_color)[(index % 4) + 1]

BufAt(display_buffer, index) ==
  IF index \in DOMAIN display_buffer THEN display_buffer[index] ELSE DisplayFill(index)

BufStore(display_buffer, index, value) ==
  IF value = DisplayFill(index) THEN Without(display_buffer, index)
  ELSE With(display_buffer, index, value)

\* Chip8IO::write_pixel(row, col, primary_color: bool)
write_pixel(display_buffer, row, col, primary) ==
  LET index == PixelIndex(row, col)
      bytes == write_color_to_slice(IF primary THEN primary_color ELSE secondary_color)
  IN  BufStore(BufStore(BufStore(BufStore(display_buffer, index, bytes[1]),
                                 index + 1, bytes[2]), index + 2, bytes[3]), index + 3, bytes[4])

get_pixel_color(display_buffer, row, col) ==
  LET index == PixelIndex(row, col)
  IN  construct_color_from_slice(
        << BufAt(display_buffer, index), BufAt(display_buffer, index + 1),
           BufAt(display_buffer, index + 2), BufAt(display_buffer, index + 3) >>)

\* Chip8IO::new: every cell holds the secondary colour, no key is held
NewDisplayBuffer == EmptyArray

NewKeysPressed == [name \in {KEYS[k] : k \in 1..NUM_KEYS} |-> FALSE]

(***************************************************************************)
(* Chip8: one machine value s holds the fields of the struct               *)
(*   pc, i, delay_timer, sound_timer, registers, stack, memory,            *)
(* the display buffer and key table it reaches through io, and what one    *)
(* run_cycle leaves behind:                                                *)
(*   res          Ok, Err(InvaidOpcode(raw)), Err(StackUnderflow(opcode))  *)
(*                or a panic (an index out of range, an overflow check)    *)
(*   touched      the memory indices the cycle used                        *)
(*   key_queries  the key codes the cycle passed to is_key_pressed         *)
(* sample is the value the random generator yields in this cycle and       *)
(* overflow_checks tells whether the build checks integer overflow.        *)
(***************************************************************************)
Ok == [tag |-> "Ok", raw |-> 0]
InvaidOpcode(raw) == [tag |-> "InvaidOpcode", raw |-> raw]
StackUnderflow(opcode) == [tag |-> "StackUnderflow", raw |-> opcode.raw]
Panic == [tag |-> "Panic", raw |-> 0]

Panicked(s) == s.res.tag = "Panic"

\* the bounds check of memory[a]: the index is noted, out of range it panics
Index(s, a) ==
  [s EXCEPT !.touched = @ \cup {a},
            !.res = IF a >= MEMORY_SIZE THEN Panic ELSE @]

set_vf(s, value) == [s EXCEPT !.registers[15] = value]

skip_pc(s) == [s EXCEPT !.pc = @ + 2]

skip_pc_back(s) == [s EXCEPT !.pc = @ - 2]

\* the caller passes a colour where the sink takes "primary colour?"
PrimaryFlag(color) == color = primary_color

\* 00E0: write_pixel(row, col, secondary) for every cell
ClearDisplay(display_buffer) ==
  LET bytes == write_color_to_slice(
                 IF PrimaryFlag(secondary_color) THEN primary_color ELSE secondary_color)
      written == {k \in 0..(DISPLAY_WIDTH * DISPLAY_HEIGHT * 4 - 1) :
                    bytes[(k % 4) + 1] # DisplayFill(k)}
  IN  [k \in written |-> bytes[(k % 4) + 1]] @@ EmptyArray

\* exec_op_type0 with a return that does not check the stack
exec_op_type0_unchecked_pop(s, opcode) ==
  CASE get_nn(opcode) = \hE0 ->
         [s EXCEPT !.display_buffer = ClearDisplay(@)]
    [] get_nn(opcode) = \hEE ->
         IF Len(s.stack) = 0
         THEN s
         ELSE [s EXCEPT !.pc = s.stack[Len(s.stack)],
                        !.stack = SubSeq(s.stack, 1, Len(s.stack) - 1)]
    [] OTHER -> [s EXCEPT !.res = InvaidOpcode(opcode.raw)]

exec_op_type0(s, opcode) ==
  CASE get_nn(opcode) = \hE0 ->
         [s EXCEPT !.display_buffer = ClearDisplay(@)]
    [] get_nn(opcode) = \hEE ->
         IF Len(s.stack) = 0
         THEN [s EXCEPT !.res = StackUnderflow(opcode)]
         ELSE [s EXCEPT !.pc = s.stack[Len(s.stack)],
                        !.stack = SubSeq(s.stack, 1, Len(s.stack) - 1)]
    [] OTHER -> [s EXCEPT !.res = InvaidOpcode(opcode.raw)]

exec_op_type1(s, opcode) == [s EXCEPT !.pc = get_nnn(opcode)]

\* exec_op_type2 that pushes the address of the call itself
exec_op_type2_pushes_call_address(s, opcode) ==
  [s EXCEPT !.stack = Append(@, s.pc - 2), !.pc = get_nnn(opcode)]

exec_op_type2(s, opcode) ==
  [s EXCEPT !.stack = Append(@, s.pc), !.pc = get_nnn(opcode)]

exec_op_type3(s, opcode) ==
  IF s.registers[opcode.x] = get_nn(opcode) THEN skip_pc(s) ELSE s

exec_op_type4(s, opcode) ==
  IF s.registers[opcode.x] # get_nn(opcode) THEN skip_pc(s) ELSE s

exec_op_type5(s, opcode) ==
  IF s.registers[opcode.x] = s.registers[opcode.y] THEN skip_pc(s) ELSE s

exec_op_type6(s, opcode) == [s EXCEPT !.registers[opcode.x] = get_nn(opcode)]

exec_op_type7(s, opcode) ==
  [s EXCEPT !.registers[opcode.x] = wrapping_add(@, get_nn(opcode))]

\* AddWithCarry with the carry decided by <= instead of <
AddWithCarry_carry_on_equal(vx, vy) ==
  LET sum == wrapping_add(vx, vy)
  IN  [value |-> sum, vf_value |-> IF sum <= vx THEN 1 ELSE 0]

\* 8XY4: the wrapped sum and the carry decided from it
AddWithCarry(vx, vy) ==
  LET sum == wrapping_add(vx, vy)
  IN  [value |-> sum, vf_value |-> IF sum < vx THEN 1 ELSE 0]

\* SubWithFlag with the flag decided by > instead of >=
SubWithFlag_strict(minuend, subtrahend) ==
  [value |-> wrapping_sub(minuend, subtrahend),
   vf_value |-> IF minuend > subtrahend THEN 1 ELSE 0]

\* 8XY5 and 8XY7: minuend - subtrahend, the flag decided on the operands
SubWithFlag(minuend, subtrahend) ==
  [value |-> wrapping_sub(minuend, subtrahend),
   vf_value |-> IF minuend >= subtrahend THEN 1 ELSE 0]

\* 8XY6 and 8XYE
ShiftRight(vx) == [value |-> Shr(vx, 1), vf_value |-> BitAnd(vx, \h01, 8)]
ShiftLeft(vx) == [value |-> Shl(vx, 1, 8), vf_value |-> Shr(BitAnd(vx, \h80, 8), 7)]

\* the flag goes to VF first, the result to Vx after it
WithFlag_result_last(s, opcode, r) ==
  [set_vf(s, r.vf_value) EXCEPT !.registers[opcode.x] = r.value]

\* the result goes to Vx first, the flag to VF after it
WithFlag(s, opcode, r) ==
  set_vf([s EXCEPT !.registers[opcode.x] = r.value], r.vf_value)

exec_op_type8(s, opcode) ==
  LET vx == s.registers[opcode.x]
      vy == s.registers[opcode.y]
  IN  CASE opcode.n = 0 -> [s EXCEPT !.registers[opcode.x] = vy]
        [] opcode.n = 1 -> [s EXCEPT !.registers[opcode.x] = BitOr(vx, vy, 8)]
        [] opcode.n = 2 -> [s EXCEPT !.registers[opcode.x] = BitAnd(vx, vy, 8)]
        [] opcode.n = 3 -> [s EXCEPT !.registers[opcode.x] = BitXor(vx, vy, 8)]
        [] opcode.n = 4 -> WithFlag(s, opcode, AddWithCarry(vx, vy))
        [] opcode.n = 5 -> WithFlag(s, opcode, SubWithFlag(vx, vy))
        [] opcode.n = 6 -> WithFlag(s, opcode, ShiftRight(vx))
        [] opcode.n = 7 -> WithFlag(s, opcode, SubWithFlag(vy, vx))
        [] opcode.n = \hE -> WithFlag(s, opcode, ShiftLeft(vx))
        [] OTHER -> [s EXCEPT !.res = InvaidOpcode(opcode.raw)]

\* exec_op_type9 with the comparison of exec_op_type5
exec_op_type9_skips_on_equal(s, opcode) ==
  IF s.registers[opcode.x] = s.registers[opcode.y] THEN skip_pc(s) ELSE s

exec_op_type9(s, opcode) ==
  IF s.registers[opcode.x] # s.registers[opcode.y] THEN skip_pc(s) ELSE s

exec_op_type10(s, opcode) == [s EXCEPT !.i = get_nnn(opcode)]

exec_op_type11(s, opcode) ==
  [s EXCEPT !.pc = get_nnn(opcode) + s.registers[0]]

exec_op_type12(s, opcode) ==
  [s EXCEPT !.registers[opcode.x] = BitAnd(s.sample % 256, get_nn(opcode), 8)]

\* plot with a collision that sets VF and leaves the cell primary
plot_never_erases(t, i, j, new_y_coord, new_x_coord) ==
  IF Panicked(t) THEN t
  ELSE IF Shr(BitAnd(MemAt(t.memory, t.i + i), Shl(1, 7 - j, 8), 8), 7 - j) = 1
       THEN IF get_pixel_color(t.display_buffer, new_y_coord, new_x_coord) = primary_color
            THEN set_vf(t, 1)
            ELSE [t EXCEPT !.display_buffer =
                    write_pixel(@, new_y_coord, new_x_coord, PrimaryFlag(primary_color))]
       ELSE t

\* DXYN, the body of the inner loop for an in-bounds cell: sprite row i, bit j
\* t is s after the bounds check of memory[self.i + i]
plot(t, i, j, new_y_coord, new_x_coord) ==
  IF Panicked(t) THEN t
  ELSE IF Shr(BitAnd(MemAt(t.memory, t.i + i), Shl(1, 7 - j, 8), 8), 7 - j) = 1
       THEN IF get_pixel_color(t.display_buffer, new_y_coord, new_x_coord) = primary_color
            THEN [set_vf(t, 1) EXCEPT !.display_buffer =
                    write_pixel(@, new_y_coord, new_x_coord, PrimaryFlag(secondary_color))]
            ELSE [t EXCEPT !.display_buffer =
                    write_pixel(@, new_y_coord, new_x_coord, PrimaryFlag(primary_color))]
       ELSE t

draw_pixel(s, i, j, new_y_coord, new_x_coord) ==
  plot(Index(s, s.i + i), i, j, new_y_coord, new_x_coord)

\* for j in j..8
RECURSIVE draw_cols(_, _, _, _, _)
draw_cols(s, i, new_y_coord, x_coord, j) ==
  IF j >= 8 \/ Panicked(s) THEN s
  ELSE LET new_x_coord == x_coord + j
       IN  IF new_x_coord >= DISPLAY_WIDTH
           THEN draw_cols(s, i, new_y_coord, x_coord, j + 1)
           ELSE draw_cols(draw_pixel(s, i, j, new_y_coord, new_x_coord),
                          i, new_y_coord, x_coord, j + 1)

\* for i in i..opcode.n
RECURSIVE draw_rows(_, _, _, _, _)
draw_rows(s, opcode, x_coord, y_coord, i) ==
  IF i >= opcode.n \/ Panicked(s) THEN s
  ELSE LET new_y_coord == y_coord + i
       IN  IF new_y_coord >= DISPLAY_HEIGHT
           THEN draw_rows(s, opcode, x_coord, y_coord, i + 1)
           ELSE draw_rows(draw_cols(s, i, new_y_coord, x_coord, 0),
                          opcode, x_coord, y_coord, i + 1)

\* exec_op_type13 with an anchor that is not reduced to the display
exec_op_type13_raw_anchor(s, opcode) ==
  LET x_coord == s.registers[opcode.x]
      y_coord == s.registers[opcode.y]
  IN  draw_rows(set_vf(s, 0), opcode, x_coord, y_coord, 0)

\* exec_op_type13 without the reset of VF
exec_op_type13_keeps_vf(s, opcode) ==
  LET x_coord == s.registers[opcode.x] % DISPLAY_WIDTH
      y_coord == s.registers[opcode.y] % DISPLAY_HEIGHT
  IN  draw_rows(s, opcode, x_coord, y_coord, 0)

exec_op_type13(s, opcode) ==
  LET x_coord == s.registers[opcode.x] % DISPLAY_WIDTH
      y_coord == s.registers[opcode.y] % DISPLAY_HEIGHT
  IN  draw_rows(set_vf(s, 0), opcode, x_coord, y_coord, 0)

\* Chip8IO::is_key_pressed: KEYS[key_num] is bounds-checked, then looked up
KeyQuery(s, key_num) ==
  [s EXCEPT !.key_queries = @ \cup {key_num},
            !.res = IF key_num >= NUM_KEYS THEN Panic ELSE @]

is_key_pressed(keys_pressed, key_num) == keys_pressed[KEYS[key_num + 1]]

\* skip_if_key that skips when the key is held, whichever instruction asks
skip_if_key_when_held(q, opcode, held) ==
  IF Panicked(q) THEN q
  ELSE IF is_key_pressed(q.keys_pressed, q.registers[opcode.x])
       THEN skip_pc(q) ELSE q

\* q is s after the bounds check of the key code; skip when the key is held (or not)
skip_if_key(q, opcode, held) ==
  IF Panicked(q) THEN q
  ELSE IF is_key_pressed(q.keys_pressed, q.registers[opcode.x]) = held
       THEN skip_pc(q) ELSE q

\* exec_op_type14 that lets an unknown selector pass as a no-op
exec_op_type14_ignores_unknown(s, opcode) ==
  CASE opcode.n = \h1 -> skip_if_key(KeyQuery(s, s.registers[opcode.x]), opcode, FALSE)
    [] opcode.n = \hE -> skip_if_key(KeyQuery(s, s.registers[opcode.x]), opcode, TRUE)
    [] OTHER -> s

exec_op_type14(s, opcode) ==
  CASE opcode.n = \h1 -> skip_if_key(KeyQuery(s, s.registers[opcode.x]), opcode, FALSE)
    [] opcode.n = \hE -> skip_if_key(KeyQuery(s, s.registers[opcode.x]), opcode, TRUE)
    [] OTHER -> [s EXCEPT !.res = InvaidOpcode(opcode.raw)]

\* FX0A, for i in i..16: the scan stops at the first held key
RECURSIVE scan_keys(_, _, _)
scan_keys(s, opcode, i) ==
  IF i >= 16 THEN [s |-> s, key_pressed |-> FALSE]
  ELSE IF is_key_pressed(s.keys_pressed, i)
       THEN [s |-> [KeyQuery(s, i) EXCEPT !.registers[opcode.x] = i], key_pressed |-> TRUE]
       ELSE scan_keys(KeyQuery(s, i), opcode, i + 1)

\* r is what the scan left: the machine and key_pressed
after_scan(r) == IF r.key_pressed THEN skip_pc_back(r.s) ELSE r.s

\* FX0A with a scan that does not break: the last held key is the one stored
wait_key_no_break(s, opcode) ==
  LET held == {k \in 0..(NUM_KEYS - 1) : is_key_pressed(s.keys_pressed, k)}
      q == [s EXCEPT !.key_queries = @ \cup 0..(NUM_KEYS - 1)]
  IN  IF held = {} THEN q
      ELSE skip_pc_back([q EXCEPT !.registers[opcode.x] =
                           CHOOSE k \in held : \A j \in held : j <= k])

wait_key(s, opcode) == after_scan(scan_keys(s, opcode, 0))

\* FX29: the product is a u8; past 255 a checked build panics, another wraps
font_addr(s, opcode) ==
  LET product == s.registers[opcode.x] * 5
  IN  IF product > 255 /\ s.overflow_checks
      THEN [s EXCEPT !.res = Panic]
      ELSE [s EXCEPT !.i = FONT_START_ADDR + (product % 256)]

\* FX33: the decimal digits, least significant first, padded to three
RECURSIVE bcd_digits(_)
bcd_digits(cur) == IF cur > 0 THEN <<cur % 10>> \o bcd_digits(cur \div 10) ELSE <<>>

pad_digits(digits) ==
  digits \o [k \in 1..(IF Len(digits) < 3 THEN 3 - Len(digits) ELSE 0) |-> 0]

Reverse(seq) == [k \in 1..Len(seq) |-> seq[Len(seq) + 1 - k]]

\* memory[i + index] = values[index + 1] for index in index..Len(values)
RECURSIVE store_bytes(_, _, _)
store_bytes(s, values, index) ==
  IF index >= Len(values) \/ Panicked(s) THEN s
  ELSE IF s.i + index >= MEMORY_SIZE THEN Index(s, s.i + index)
       ELSE store_bytes([Index(s, s.i + index) EXCEPT
                           !.memory = MemStore(@, s.i + index, values[index + 1])],
                        values, index + 1)

\* store_bcd that stores the digits in the order they were produced
store_bcd_least_first(s, opcode) ==
  store_bytes(s, pad_digits(bcd_digits(s.registers[opcode.x])), 0)

store_bcd(s, opcode) ==
  store_bytes(s, Reverse(pad_digits(bcd_digits(s.registers[opcode.x]))), 0)

\* store_registers that leaves I after the last byte stored
store_registers_advances_i(s, opcode) ==
  [store_bytes(s, [k \in 1..(opcode.x + 1) |-> s.registers[k - 1]], 0)
     EXCEPT !.i = @ + opcode.x + 1]

\* FX55: for i in 0..x+1
store_registers(s, opcode) ==
  store_bytes(s, [k \in 1..(opcode.x + 1) |-> s.registers[k - 1]], 0)

\* FX65: for i in i..x+1
RECURSIVE load_registers(_, _, _)
load_registers(s, opcode, i) ==
  IF i >= opcode.x + 1 \/ Panicked(s) THEN s
  ELSE IF s.i + i >= MEMORY_SIZE THEN Index(s, s.i + i)
       ELSE load_registers([Index(s, s.i + i) EXCEPT
                              !.registers[i] = MemAt(s.memory, s.i + i)],
                           opcode, i + 1)

\* add_index without the mask
add_index_unmasked(s, opcode) ==
  LET sum == s.i + s.registers[opcode.x]
      t == IF sum >= \h1000 THEN set_vf(s, 1) ELSE s
  IN  [t EXCEPT !.i = sum]

\* add_index that clears the flag when the sum stays below 0x1000
add_index_resets_vf(s, opcode) ==
  LET sum == s.i + s.registers[opcode.x]
      t == IF sum >= \h1000 THEN set_vf(s, 1) ELSE set_vf(s, 0)
  IN  [t EXCEPT !.i = BitAnd(sum, \hFFF, 16)]

\* FX1E: the sum is a usize, the flag is set (never cleared), then the mask
add_index(s, opcode) ==
  LET sum == s.i + s.registers[opcode.x]
      t == IF sum >= \h1000 THEN set_vf(s, 1) ELSE s
  IN  [t EXCEPT !.i = BitAnd(sum, \hFFF, 16)]

exec_op_type15(s, opcode) ==
  CASE get_nn(opcode) = \h07 -> [s EXCEPT !.registers[opcode.x] = s.delay_timer]
    [] get_nn(opcode) = \h15 -> [s EXCEPT !.delay_timer = s.registers[opcode.x]]
    [] get_nn(opcode) = \h18 -> [s EXCEPT !.sound_timer = s.registers[opcode.x]]
    [] get_nn(opcode) = \h1E -> add_index(s, opcode)
    [] get_nn(opcode) = \h0A -> wait_key(s, opcode)
    [] get_nn(opcode) = \h29 -> font_addr(s, opcode)
    [] get_nn(opcode) = \h33 -> store_bcd(s, opcode)
    [] get_nn(opcode) = \h55 -> store_registers(s, opcode)
    [] get_nn(opcode) = \h65 -> load_registers(s, opcode, 0)
    [] OTHER -> [s EXCEPT !.res = InvaidOpcode(opcode.raw)]

Dispatch(s, opcode) ==
  CASE opcode.op_type = 0 -> exec_op_type0(s, opcode)
    [] opcode.op_type = 1 -> exec_op_type1(s, opcode)
    [] opcode.op_type = 2 -> exec_op_type2(s, opcode)
    [] opcode.op_type = 3 -> exec_op_type3(s, opcode)
    [] opcode.op_type = 4 -> exec_op_type4(s, opcode)
    [] opcode.op_type = 5 -> exec_op_type5(s, opcode)
    [] opcode.op_type = 6 -> exec_op_type6(s, opcode)
    [] opcode.op_type = 7 -> exec_op_type7(s, opcode)
    [] opcode.op_type = 8 -> exec_op_type8(s, opcode)
    [] opcode.op_type = 9 -> exec_op_type9(s, opcode)
    [] opcode.op_type = 10 -> exec_op_type10(s, opcode)
    [] opcode.op_type = 11 -> exec_op_type11(s, opcode)
    [] opcode.op_type = 12 -> exec_op_type12(s, opcode)
    [] opcode.op_type = 13 -> exec_op_type13(s, opcode)
    [] opcode.op_type = 14 -> exec_op_type14(s, opcode)
    [] opcode.op_type = 15 -> exec_op_type15(s, opcode)
    [] OTHER -> [s EXCEPT !.res = InvaidOpcode(opcode.raw)]

\* the word at pc: (memory[pc] << 8) | memory[pc + 1]
FetchWord(memory, pc) == BitOr(Shl(MemAt(memory, pc), 8, 16), MemAt(memory, pc + 1), 16)

\* Chip8::run_cycle on a machine whose res, touched and key_queries are reset
\* a is s after the bounds check of memory[self.pc], b after that of memory[self.pc + 1]
fetch_low(a) == IF Panicked(a) THEN a ELSE Index(a, a.pc + 1)

decode_execute(b) ==
  IF Panicked(b) THEN b
  ELSE Dispatch(skip_pc(b), Opcode_new(FetchWord(b.memory, b.pc)))

run_cycle(s) == decode_execute(fetch_low(Index(s, s.pc)))

\* decay as an unguarded wrapping decrement
decay_wrapping(timer) == wrapping_sub(timer, 1)

\* Chip8::update_timers on one counter
decay(timer) == IF timer > 0 THEN timer - 1 ELSE timer

\* Chip8::load_rom and Chip8::load_font: a copy into a range of memory
copy_from_slice(memory, start, bytes) ==
  LET range == start..(start + Len(bytes) - 1)
      value(a) == IF a \in range THEN bytes[a - start + 1] ELSE memory[a]
      kept == {a \in DOMAIN memory \cup range : value(a) # MemoryFill(a)}
  IN  [a \in kept |-> value(a)] @@ EmptyArray

load_rom(memory, rom_file) == copy_from_slice(memory, ROM_START_ADDR, rom_file)

load_font(memory, font_buffer, font_size) ==
  copy_from_slice(memory, FONT_START_ADDR, SubSeq(font_buffer, 1, font_size))

(***************************************************************************)
(* The state: the fields of Chip8 and Chip8IO, the command line, the       *)
(* position of main in its frame loop, and a record of the last cycles.    *)
(***************************************************************************)
VARIABLES
  pc, i, delay_timer, sound_timer, registers, stack, memory,  \* Chip8
  display_buffer, keys_pressed,                               \* Chip8IO
  instructions_per_second,   \* Args
  overflow_checks,           \* the build: are integer overflows checked?
  keyboard,                  \* the keypad keys the user touches in this run
  host,                      \* where main is: poll, timers, cycles, render, exited
  cycles_left,               \* iterations left of the for loop of the frame
  exit,                      \* running, or how main ended: quit, error, panic
  last,                      \* the last run_cycle: what it fetched, its result, the state before it
  prev,                      \* the run_cycle before that one
  timer_log,                 \* each timer's value when FX15/FX18 last set it, and the update_timers calls since
  frame_calls                \* the calls main made in the current iteration of its loop

vars ==
  << pc, i, delay_timer, sound_timer, registers, stack, memory, display_buffer,
     keys_pressed, instructions_per_second, overflow_checks, keyboard, host,
     cycles_left, exit, last, prev, timer_log, frame_calls >>

chip8_vars == << pc, i, delay_timer, sound_timer, registers, stack, memory >>

\* the bytes of a ROM file given as 16-bit words, high byte first
RECURSIVE Bytes(_)
Bytes(words) ==
  IF Len(words) = 0 THEN <<>>
  ELSE << Head(words) \div 256, Head(words) % 256 >> \o Bytes(Tail(words))

(***************************************************************************)
(* The runs explored.  A run is a ROM file (its 16-bit words), the keypad  *)
(* keys the user touches, the --instructions-per-second of the command     *)
(* line and whether the build checks integer overflow.                     *)
(***************************************************************************)
\* a run under every command line of the model
Run(rom, keys) ==
  {[rom |-> rom, keys |-> keys, ips |-> n, checks |-> FALSE] : n \in 1..MaxIps}

\* a run under the default command line
Quick(rom) ==
  [rom |-> rom, keys |-> {}, ips |-> INSTRUCTIONS_PER_SECOND_DEFAULT, checks |-> FALSE]

\* register values at the edges of the 8-bit range, and two in the middle
ByteSamples == {0, 1, 5, 10, 127, 128, 251, 254, 255}

\* every word of family 0 with x = 0, every sub-selector of families 8, E and F
SelectorSweep ==
  {Quick(<< w >>) : w \in \h0000..\h00FF}
    \cup {Quick(<< \h6105, \h8010 + n >>) : n \in 0..15}
    \cup {Quick(<< \hE090 + nn >>) : nn \in 0..31}
    \cup {Quick(<< \hF000 + nn >>) : nn \in 0..255}
    \cup {Quick(<< \h6A07, w >>) : w \in {\h01E0, \h0AE1, \h0FEE, \h8AB8, \h8ABF, \hEA9E,
                                          \hEAA1, \hEA00, \hFA07, \hFA08, \hFAFF}}

\* one word of every family that has no sub-selector
PlainFamilies ==
  {Quick(<< w >>) : w \in {\h1204, \h2204, \h3000, \h3001, \h4000, \h4001, \h5010,
                           \h6A12, \h7A12, \h9010, \hA123, \hB204, \hC00F, \hD015,
                           \hA2F0, \hFFFF}}

\* 8XY4, 8XY5 and 8XY7 on sampled operands: distinct registers, x = y, y = F
Arithmetic ==
  {Quick(<< \h6000 + a, \h6100 + b, \h8010 + n >>) :
     a \in ByteSamples, b \in ByteSamples, n \in {4, 5, 7}}
    \cup {Quick(<< \h6200 + a, \h8220 + n >>) : a \in ByteSamples, n \in {4, 5, 7}}
    \cup {Quick(<< \h6000 + a, \h8014, \h80F0 + n >>) : a \in ByteSamples, n \in {4, 5, 7}}

\* sprites: the byte FF at 0x20A drawn twice at (0, 0), glyphs of the font at
\* anchors inside, at the edges and past the size of the display, overlapping
\* draws, a sprite row read past the end of memory, a draw with VF set before
\* it, VF as the anchor register, a sprite of no rows and one of clear bits
Sprites ==
  {Quick(<< \hA20A, \hD011, \hD011, \hD011, \h1208, \hFF00 >>)}
    \cup {Quick(<< \h6000 + a, \h6100 + b, \hA050 + g, \hD015, \hD015, \h7003, \hD105,
                   \hD015, \hD015 >>) :
            a \in {0, 58, 62, 63, 126, 255}, b \in {0, 29, 31, 63, 255}, g \in {0, 55}}
    \cup {Quick(<< \hAFFF, \hD012 >>), Quick(<< \hAFFF, \hD011, \hD011 >>)}
    \cup {Quick(<< \h6F01, \hA050, \hD015 >>), Quick(<< \h6F3F, \hA050, \hDF05, \hDF05 >>),
          Quick(<< \hA050, \hD010, \hD010 >>), Quick(<< \hA300, \hD015, \hD015 >>)}

\* the key wait under every command line, with two keys of the keypad in use
KeyWait ==
  Run(<< \hF30A, \h1200 >>, {2, 5}) \cup Run(<< \hF30A, \hF30A, \h1202 >>, {0})
    \cup Run(<< \h6307, \hF30A, \h1202 >>, {}) \cup Run(<< \h6F07, \hFF0A, \h1202 >>, {9, 12})

\* the timers set from a register and left to decay while the program spins
Timers ==
  UNION {Run(<< \h6000 + v, \hF015, \h1204 >>, {}) : v \in {0, 1, 3}}
    \cup Run(<< \h6003, \hF015, \h6107, \hF118, \h1208 >>, {})
    \cup Run(<< \h600C, \hF018, \h1204 >>, {})
    \cup Run(<< \h6003, \hF015, \hF007, \hF015, \h1204 >>, {})

\* fetches and accesses at the end of memory, returns and calls, and a font
\* address past a byte under both builds
ControlFlow ==
  {Quick(<< \h1FFF >>), Quick(<< \h1FFE >>), Quick(<< \h60FF, \hBFFF >>),
   Quick(<< \hAFFE, \hF033 >>), Quick(<< \hAFFF, \hF155 >>), Quick(<< \hAFFF, \hF165 >>),
   Quick(<< \h2204, \h1200, \h00EE >>), Quick(<< \h2204, \h0000, \h00EE, \h00EE >>),
   Quick(<< \h2200 >>), Quick(<< \h6001, \h00EE >>),
   Quick(<< \h2204, \h1200, \h2208, \h00EE, \h00EE >>),
   Quick(<< \h2206, \h2206, \h00EE, \h6A01, \h00EE >>)}
    \cup {[Quick(<< \h6034, \hF029 >>) EXCEPT !.checks = c] : c \in BOOLEAN}

\* FX55 and FX65: a store followed by the load, registers overwritten between
\* them, x = 0 and x = F, the last byte of memory, the font as source and as target
Stores ==
  {Quick(<< \h6011, \h6122, \h6233, \h6344, \hA300, \hF355, \hF365 >>),
   Quick(<< \h6011, \h6122, \h6233, \hA300, \hF155, \h6000, \h6100, \hF165 >>),
   Quick(<< \h6005, \h6EAA, \h6F09, \hA300, \hFF55, \hFF65 >>),
   Quick(<< \h6011, \h6122, \hAFFE, \hF155, \hF165 >>),
   Quick(<< \h6007, \hF055, \hF065 >>),
   Quick(<< \h6011, \h6122, \hA050, \hF155 >>),
   Quick(<< \h6377, \hA050, \hF465 >>),
   Quick(<< \h6011, \hA204, \hF155, \hF165 >>)}

\* ANNN, FX1E and FX29: sums below, at and above 0x1000, VF set before the
\* addition, VF as the operand, and font addresses for Vx inside and outside
\* 0..15 under both builds
IndexOps ==
  {Quick(<< \hAFFF, \h6002, \hF01E >>), Quick(<< \hAFFF, \h6001, \hF01E >>),
   Quick(<< \hAFFE, \h6001, \hF01E >>), Quick(<< \h6F05, \hA100, \h6003, \hF01E >>),
   Quick(<< \hAFFF, \h6FFF, \hFF1E >>), Quick(<< \h6F05, \hA100, \hFF1E >>),
   Quick(<< \h6F01, \hAFFF, \h6001, \hF01E >>),
   Quick(<< \h63FF, \hA800, \hF31E, \hF31E, \hA000, \hF31E >>)}
    \cup {[Quick(<< \h6200 + v, \hAFFF, \hF229 >>) EXCEPT !.checks = c] :
            v \in (0..15) \cup {16, 51, 52, 128, 255}, c \in BOOLEAN}

\* FX33 on every value of a byte, at the last three bytes of memory, and over
\* bytes that are not zero (the program itself)
Decimal ==
  {Quick(<< \h6000 + v, \hA300, \hF033 >>) : v \in 0..255}
    \cup {Quick(<< \h657B, \hAFFD, \hF533 >>), Quick(<< \h6007, \hA200, \hF033 >>)}

\* the conditional skips with the condition true and false, x = y, and jumps
\* with and without an offset in V0
Skips ==
  {Quick(<< \h6000 + a, \h6100 + b, w >>) :
     a \in {0, 7}, b \in {0, 7, 255},
     w \in {\h3007, \h3100, \h4007, \h41FF, \h5010, \h5100, \h5110, \h9010, \h9100, \h9000}}
    \cup {Quick(<< \h6004, \hB204 >>), Quick(<< \h60FF, \hBF01 >>), Quick(<< \h1206 >>),
          Quick(<< \h6A01, \h2F00 >>)}

\* EX9E and EXA1 in a loop while the user presses and releases the key asked for
KeySkips ==
  Run(<< \h6002, \hE09E, \hE0A1, \hE09E, \hE0A1, \h1202, \h1202 >>, {2})
    \cup Run(<< \h6F0F, \hEFA1, \hEF9E, \h1202, \h1202 >>, {0, 15})

\* the flagged operations of family 8 with VF as the destination, with VF as
\* both operands, and the two shifts on V0 beside a V1 that varies
FlagSamples == {0, 1, 127, 128, 255}

Flags ==
  {Quick(<< \h6F00 + a, \h6100 + b, \h8F10 + n >>) :
     a \in FlagSamples, b \in FlagSamples, n \in {4, 5, 6, 7, \hE}}
    \cup {Quick(<< \h6F00 + a, \h8FF0 + n >>) : a \in FlagSamples, n \in {4, 5, 6, 7, \hE}}
    \cup {Quick(<< \h6000 + a, \h6100 + b, \h8010 + n >>) :
            a \in ByteSamples, b \in FlagSamples, n \in {6, \hE}}

\* EX9E and EXA1 with a register past the sixteen keys
KeyCodes ==
  {Quick(<< \h6000 + v, \hE000 + nn, \h1204, \h1204 >>) :
     v \in {15, 16, 127, 255}, nn \in {\h9E, \hA1}}

Scenarios ==
  SelectorSweep \cup PlainFamilies \cup Arithmetic \cup Sprites \cup KeyWait \cup Timers
    \cup ControlFlow \cup Stores \cup IndexOps \cup Decimal \cup Skips \cup KeySkips
    \cup Flags \cup KeyCodes

\* an iteration of the loop of main that has called nothing yet
NoCalls == [update_timers |-> 0, run_cycle |-> 0, render_frame |-> 0]

NoCycle ==
  [ ran |-> FALSE, fetched |-> FALSE, raw |-> 0, addr |-> 0, res |-> Ok, touched |-> {}, key_queries |-> {},
    pc |-> 0, i |-> 0, delay_timer |-> 0, sound_timer |-> 0,
    registers |-> [r \in 0..(NUM_REGISTERS - 1) |-> 0], stack |-> <<>>,
    memory |-> EmptyArray, keys_pressed |-> NewKeysPressed,
    display_buffer |-> NewDisplayBuffer ]

\* the state after Chip8IO::new, Chip8::new, load_rom and load_font
Init ==
  /\ pc = ROM_START_ADDR
  /\ i = 0
  /\ delay_timer = 0
  /\ sound_timer = 0
  /\ registers = [r \in 0..(NUM_REGISTERS - 1) |-> 0]
  /\ stack = <<>>
  /\ \E sc \in Scenarios :
       /\ memory = load_font(load_rom(EmptyArray, Bytes(sc.rom)),
                             FONT, FONT_SIZE)
       /\ keyboard = sc.keys
       /\ instructions_per_second = sc.ips
       /\ overflow_checks = sc.checks
  /\ display_buffer = NewDisplayBuffer
  /\ keys_pressed = NewKeysPressed
  /\ host = "poll"
  /\ cycles_left = 0
  /\ exit = "running"
  /\ last = NoCycle
  /\ prev = NoCycle
  /\ timer_log = [delay_armed |-> FALSE, delay_set |-> 0, delay_calls |-> 0,
                  sound_armed |-> FALSE, sound_set |-> 0, sound_calls |-> 0]
  /\ frame_calls = NoCalls

\* main returns (an error, Quit) or dies in a panic
Exits(how) == host' = "exited" /\ exit' = how /\ cycles_left' = 0

(***************************************************************************)
(* poll_input: the pending window events are handled in order; Quit ends   *)
(* the loop, a key event without a scancode panics, a key that is not on   *)
(* the keypad is ignored.                                                  *)
(***************************************************************************)
KeyNames == {KEYS[k + 1] : k \in keyboard} \cup {"Space"}

Events ==
  {[type |-> "Quit", name |-> ""], [type |-> "Other", name |-> ""]}
    \cup [type : {"KeyUp", "KeyDown"}, name : KeyNames \cup {"None"}]

EventBatches == UNION {[1..n -> Events] : n \in 0..MaxEvents}

\* the loop over poll_iter from event k on: the key table and how it ended
RECURSIVE poll_events(_, _, _)
poll_events(keys, events, k) ==
  IF k > Len(events) THEN [keys |-> keys, out |-> "true"]
  ELSE LET event == events[k]
       IN  CASE event.type = "Quit" -> [keys |-> keys, out |-> "false"]
             [] event.type \in {"KeyUp", "KeyDown"} ->
                  IF event.name = "None" THEN [keys |-> keys, out |-> "panic"]
                  ELSE IF event.name \in DOMAIN keys
                       THEN poll_events([keys EXCEPT ![event.name] = (event.type = "KeyDown")],
                                        events, k + 1)
                       ELSE poll_events(keys, events, k + 1)
             [] OTHER -> poll_events(keys, events, k + 1)

PollInput ==
  /\ host = "poll"
  /\ \E events \in EventBatches :
       \E r \in {poll_events(keys_pressed, events, 1)} :
           /\ keys_pressed' = r.keys
           /\ frame_calls' = IF r.out = "true" THEN NoCalls ELSE frame_calls
           /\ CASE r.out = "true" -> host' = "timers" /\ UNCHANGED << exit, cycles_left >>
                [] r.out = "false" -> Exits("quit")
                [] OTHER -> Exits("panic")
  /\ UNCHANGED << chip8_vars, display_buffer, instructions_per_second, overflow_checks,
                  keyboard, last, prev, timer_log >>

\* calls of update_timers since FX15 or FX18 set a timer, counted up to MaxCalls
CountCall(n, armed) == IF armed /\ n < MaxCalls THEN n + 1 ELSE n

UpdateTimers ==
  /\ host = "timers"
  /\ delay_timer' = decay(delay_timer)
  /\ sound_timer' = decay(sound_timer)
  /\ timer_log' = [timer_log EXCEPT !.delay_calls = CountCall(@, timer_log.delay_armed),
                                    !.sound_calls = CountCall(@, timer_log.sound_armed)]
  /\ frame_calls' = [frame_calls EXCEPT !.update_timers = @ + 1]
  /\ host' = "cycles"
  /\ cycles_left' = instructions_per_second
  /\ UNCHANGED << pc, i, registers, stack, memory, display_buffer, keys_pressed,
                  instructions_per_second, overflow_checks, keyboard, exit, last, prev >>

(***************************************************************************)
(* One iteration of the for loop of main: run_cycle, and the return on Err.*)
(***************************************************************************)
Machine(sample) ==
  [ pc |-> pc, i |-> i, delay_timer |-> delay_timer, sound_timer |-> sound_timer,
    registers |-> registers, stack |-> stack, memory |-> memory,
    display_buffer |-> display_buffer, keys_pressed |-> keys_pressed,
    overflow_checks |-> overflow_checks, sample |-> sample,
    res |-> Ok, touched |-> {}, key_queries |-> {} ]

Fetchable == pc + 1 < MEMORY_SIZE

\* the generator is sampled by CXNN alone: Uniform::new(0, 256)
Samples ==
  IF Fetchable /\ Opcode_new(FetchWord(memory, pc)).op_type = 12 THEN 0..255 ELSE {0}

\* what is kept of a cycle that ran from the current state and gave r
CycleRecord(r) ==
  [ ran |-> TRUE, fetched |-> Fetchable,
    raw |-> IF Fetchable THEN FetchWord(memory, pc) ELSE 0,
    addr |-> pc, res |-> r.res, touched |-> r.touched, key_queries |-> r.key_queries,
    pc |-> pc, i |-> i, delay_timer |-> delay_timer, sound_timer |-> sound_timer,
    registers |-> registers, stack |-> stack, memory |-> memory,
    keys_pressed |-> keys_pressed, display_buffer |-> display_buffer ]

\* FX15 and FX18 restart the count of a timer
TimerLog(rec, r) ==
  LET opcode == Opcode_new(rec.raw)
      sets(nn) == rec.fetched /\ r.res = Ok /\ opcode.op_type = 15 /\ get_nn(opcode) = nn
  IN  [ delay_armed |-> sets(\h15) \/ timer_log.delay_armed,
        delay_set |-> IF sets(\h15) THEN r.delay_timer ELSE timer_log.delay_set,
        delay_calls |-> IF sets(\h15) THEN 0 ELSE timer_log.delay_calls,
        sound_armed |-> sets(\h18) \/ timer_log.sound_armed,
        sound_set |-> IF sets(\h18) THEN r.sound_timer ELSE timer_log.sound_set,
        sound_calls |-> IF sets(\h18) THEN 0 ELSE timer_log.sound_calls ]

\* the for loop of main with an Err that is printed and passed over
after_cycle_passes_over_err(r) ==
  CASE r.res.tag = "Panic" -> Exits("panic")
    [] OTHER -> host' = host /\ exit' = exit /\ cycles_left' = cycles_left - 1

\* if let Err(e) = run_cycle() { println!(..); return; }: Ok goes on with the
\* for loop, Err returns from main, a panic ends the process
after_cycle(r) ==
  CASE r.res.tag = "Ok" -> host' = host /\ exit' = exit /\ cycles_left' = cycles_left - 1
    [] r.res.tag = "Panic" -> Exits("panic")
    [] OTHER -> Exits("error")

RunCycle ==
  /\ host = "cycles"
  /\ cycles_left > 0
  /\ \E sample \in Samples :
       \E r \in {run_cycle(Machine(sample))} :
           /\ Len(r.stack) <= MaxStack
           /\ pc' = r.pc
           /\ i' = r.i
           /\ delay_timer' = r.delay_timer
           /\ sound_timer' = r.sound_timer
           /\ registers' = r.registers
           /\ stack' = r.stack
           /\ memory' = r.memory
           /\ display_buffer' = r.display_buffer
           /\ last' = CycleRecord(r)
           /\ prev' = last
           /\ timer_log' = TimerLog(CycleRecord(r), r)
           /\ frame_calls' = [frame_calls EXCEPT !.run_cycle = @ + 1]
           /\ after_cycle(r)
  /\ UNCHANGED << keys_pressed, instructions_per_second, overflow_checks, keyboard >>

\* after the for loop: target_frame_duration - time_elapsed panics when the
\* frame took longer than its budget; otherwise main sleeps the rest
FramePace ==
  /\ host = "cycles"
  /\ cycles_left = 0
  /\ \E late \in BOOLEAN :
       IF late THEN Exits("panic")
       ELSE host' = "render" /\ UNCHANGED << exit, cycles_left >>
  /\ UNCHANGED << chip8_vars, display_buffer, keys_pressed, instructions_per_second,
                  overflow_checks, keyboard, last, prev, timer_log, frame_calls >>

\* render_frame copies the display buffer to the window and changes nothing here
RenderFrame ==
  /\ host = "render"
  /\ host' = "poll"
  /\ frame_calls' = [frame_calls EXCEPT !.render_frame = @ + 1]
  /\ UNCHANGED << chip8_vars, display_buffer, keys_pressed, instructions_per_second,
                  overflow_checks, keyboard, cycles_left, exit, last, prev, timer_log >>

Next == PollInput \/ UpdateTimers \/ RunCycle \/ FramePace \/ RenderFrame

Spec == Init /\ [][Next]_vars

(***************************************************************************)
(* Properties.  last holds the word the latest run_cycle fetched, its      *)
(* result and the machine before it; pc, i, registers, stack, memory and   *)
(* display_buffer change in run_cycle alone, so next to last they are the  *)
(* machine after that cycle.                                               *)
(***************************************************************************)
LastOp == Opcode_new(last.raw)

\* the latest cycle fetched a word of this family
Executed(op_type) == last.ran /\ last.fetched /\ LastOp.op_type = op_type

\* the latest cycle fetched a word of this family and returned Ok
Completed(op_type) == Executed(op_type) /\ last.res = Ok

NoKeyHeld(keys) == \A k \in 0..(NUM_KEYS - 1) : ~keys[KEYS[k + 1]]

\* C1: a cycle that executes FX0A at address a leaves PC = a when no key
\* 0..15 is held, and PC = a + 2 when some key is held
C1_KeyWaitBlocks ==
  (Completed(15) /\ get_nn(LastOp) = \h0A) =>
    pc = (IF NoKeyHeld(last.keys_pressed) THEN last.addr ELSE last.addr + 2)

\* C2: every memory index a cycle reads or writes lies in 0x000..0xFFF
C2_AccessesInRange ==
  last.ran => \A a \in last.touched : a \in 0..(MEMORY_SIZE - 1)

ReturnOnEmptyStack == Executed(0) /\ get_nn(LastOp) = \hEE /\ last.stack = << >>

\* C3 (as the code has it): 00EE on an empty stack yields StackUnderflow, the
\* stack is still empty and PC holds the address after the instruction: the
\* advance of the fetch is kept, nothing is loaded into PC
C3_UnderflowKeepsFetchAdvance ==
  ReturnOnEmptyStack =>
    /\ last.res = StackUnderflow(LastOp)
    /\ stack = << >>
    /\ pc = last.pc + 2

C3_Witness ==
  ReturnOnEmptyStack /\ last.res.tag = "StackUnderflow" /\ last.registers[0] = 1
    /\ pc = ROM_START_ADDR + 4

\* C3 (as stated): 00EE on an empty stack yields StackUnderflow, and PC after
\* the failed cycle equals PC before it, the stack still empty
C3_UnderflowKeepsPc ==
  ReturnOnEmptyStack =>
    /\ last.res = StackUnderflow(LastOp)
    /\ stack = << >>
    /\ pc = last.pc

\* the words whose family has a sub-selector the instruction set leaves undefined
UndefinedSelector(opcode) ==
  \/ opcode.op_type = \h0 /\ opcode.raw % 256 \notin {\hE0, \hEE}
  \/ opcode.op_type = \h8 /\ opcode.raw % 16 \notin (0..7) \cup {\hE}
  \/ opcode.op_type = \hE /\ opcode.raw % 16 \notin {\h1, \hE}
  \/ opcode.op_type = \hF /\
       opcode.raw % 256 \notin {\h07, \h0A, \h15, \h18, \h1E, \h29, \h33, \h55, \h65}

\* a step of the for loop of main: run_cycle is what happens next
CycleStep == host = "cycles" /\ cycles_left > 0

InvalidOpcodeStep ==
  LET opcode == Opcode_new(last'.raw)
  IN  last'.fetched =>
        /\ (last'.res.tag = "InvaidOpcode") <=> UndefinedSelector(opcode)
        /\ last'.res.tag = "InvaidOpcode" =>
             /\ last'.res.raw = last'.raw
             /\ pc' = pc + 2
             /\ UNCHANGED << i, registers, stack, delay_timer, sound_timer, memory,
                             display_buffer, keys_pressed >>
        /\ opcode.op_type \notin {\h0, \h8, \hE, \hF} =>
             last'.res.tag \notin {"InvaidOpcode", "StackUnderflow"}

\* C4: run_cycle returns InvaidOpcode(raw) exactly when the fetched word has an
\* undefined sub-selector in family 0, 8, E or F; then PC = PC + 2 is the only
\* change of the state; a word of another family never returns an error
C4_InvalidOpcode == [][CycleStep => InvalidOpcodeStep]_vars

C4_Witness ==
  /\ Executed(8) /\ last.res = InvaidOpcode(\h8AB8)
  /\ registers[10] = 7 /\ pc = ROM_START_ADDR + 4 /\ exit = "error"

(***************************************************************************)
(* DXYN.  The cells of the sprite of a draw, read off the machine before   *)
(* it: anchor reduced to the display, rows and bits past an edge left out. *)
(***************************************************************************)
SpriteBit(rec, row, bit) == (MemAt(rec.memory, rec.i + row) \div Pow2(7 - bit)) % 2

SpriteCells(rec) ==
  LET opcode == Opcode_new(rec.raw)
      xCoord == rec.registers[opcode.x] % 64
      yCoord == rec.registers[opcode.y] % 32
  IN  {<< yCoord + row, xCoord + bit >> : << row, bit >> \in
         {c \in (0..(opcode.n - 1)) \X (0..7) :
            /\ yCoord + c[1] < 32
            /\ xCoord + c[2] < 64
            /\ SpriteBit(rec, c[1], c[2]) = 1}}

IsPrimary(buffer, cell) == get_pixel_color(buffer, cell[1], cell[2]) = primary_color
IsSecondary(buffer, cell) == get_pixel_color(buffer, cell[1], cell[2]) = secondary_color

\* the cells (row, column) that differ between two buffers; a byte outside
\* both domains holds what the constructor wrote in both
ChangedCells(before, after) ==
  {<< (k \div 4) \div DISPLAY_WIDTH, (k \div 4) % DISPLAY_WIDTH >> :
     k \in {k \in DOMAIN before \cup DOMAIN after : BufAt(before, k) # BufAt(after, k)}}

\* the latest two cycles executed the same DXYN from the same I, memory and anchor
SameDrawTwice ==
  /\ Completed(13) /\ prev.ran /\ prev.fetched /\ prev.res = Ok
  /\ prev.raw = last.raw
  /\ prev.i = last.i /\ prev.memory = last.memory
  /\ prev.registers[LastOp.x] = last.registers[LastOp.x]
  /\ prev.registers[LastOp.y] = last.registers[LastOp.y]

\* C5: the same DXYN executed twice in a row restores every display cell; when
\* the sprite has a set bit in bounds and was first drawn onto secondary cells,
\* the first draw leaves VF = 0 and the second VF = 1
C5_DrawTwiceRestores ==
  SameDrawTwice =>
    /\ display_buffer = prev.display_buffer
    /\ (/\ SpriteCells(prev) # {}
        /\ \A cell \in SpriteCells(prev) : IsSecondary(prev.display_buffer, cell))
         => /\ last.registers[15] = 0
            /\ \A cell \in SpriteCells(prev) : IsPrimary(last.display_buffer, cell)
            /\ registers[15] = 1

\* the byte FF at (0, 0): eight primary cells in row 0, then none
C5_Witness ==
  /\ SameDrawTwice /\ last.raw = \hD011 /\ last.i = \h20A
  /\ SpriteCells(prev) = {<< 0, c >> : c \in 0..7}
  /\ ChangedCells(prev.display_buffer, last.display_buffer) = {<< 0, c >> : c \in 0..7}
  /\ prev.display_buffer = NewDisplayBuffer /\ display_buffer = NewDisplayBuffer
  /\ last.registers[15] = 0 /\ registers[15] = 1

\* C6: the cells a DXYN changes are exactly the in-bounds cells under a set bit
\* of the sprite anchored at (Vx mod 64, Vy mod 32); each is toggled, and no
\* byte is written past the last cell of the buffer
C6_DrawClips ==
  Completed(13) =>
    /\ ChangedCells(last.display_buffer, display_buffer) = SpriteCells(last)
    /\ \A cell \in SpriteCells(last) :
         IF IsPrimary(last.display_buffer, cell) THEN IsSecondary(display_buffer, cell)
         ELSE IsPrimary(display_buffer, cell)
    /\ DOMAIN display_buffer \subseteq 0..(DISPLAY_WIDTH * DISPLAY_HEIGHT * 4 - 1)

\* a glyph anchored at (126 mod 64, 63 mod 32) = (62, 31): one row and two
\* columns are on the display, the rest is cut off
C6_Witness ==
  /\ Completed(13) /\ LastOp.n = 5
  /\ last.registers[LastOp.x] = 126 /\ last.registers[LastOp.y] = 63
  /\ SpriteCells(last) = {<< 31, 62 >>, << 31, 63 >>}
  /\ ChangedCells(last.display_buffer, display_buffer) = {<< 31, 62 >>, << 31, 63 >>}

\* C7: after DXYN, VF = 1 if a set bit of the sprite landed in bounds on a cell
\* that was primary before the draw, and VF = 0 otherwise, whatever VF was
C7_CollisionFlag ==
  Completed(13) =>
    registers[15] =
      (IF \E cell \in SpriteCells(last) : IsPrimary(last.display_buffer, cell) THEN 1 ELSE 0)

\* VF = 1 before a draw onto secondary cells: VF = 0 after it
C7_Witness ==
  /\ Completed(13) /\ last.registers[15] = 1 /\ registers[15] = 0
  /\ SpriteCells(last) # {} /\ last.display_buffer = NewDisplayBuffer

C7_WitnessCollision ==
  /\ Completed(13) /\ last.registers[15] = 0 /\ registers[15] = 1
  /\ \E cell \in SpriteCells(last) : IsPrimary(last.display_buffer, cell)
  /\ \E cell \in SpriteCells(last) : IsSecondary(last.display_buffer, cell)

(***************************************************************************)
(* 8XY4, 8XY5, 8XY7 with x # F.                                            *)
(***************************************************************************)
Alu(n) == Completed(8) /\ LastOp.n = n /\ LastOp.x # 15

Vx_old == last.registers[LastOp.x]
Vy_old == last.registers[LastOp.y]

\* C8: after 8XY4 with x # F, Vx = (Vx_old + Vy_old) mod 256 and VF = 1 if the
\* sum is above 255, else VF = 0
C8_AddWithCarry ==
  Alu(4) =>
    /\ registers[LastOp.x] = (Vx_old + Vy_old) % 256
    /\ registers[15] = (IF Vx_old + Vy_old > 255 THEN 1 ELSE 0)

\* V0 = 0xFF, V1 = 0x01, 8014: V0 = 0x00, VF = 1
C8_Witness ==
  /\ Alu(4) /\ last.raw = \h8014 /\ Vx_old = 255 /\ Vy_old = 1
  /\ registers[0] = 0 /\ registers[15] = 1

\* C9: after 8XY5 with x # F, Vx = (Vx_old - Vy_old) mod 256 and VF = 1 iff
\* Vx_old >= Vy_old; after 8XY7, Vx = (Vy_old - Vx_old) mod 256 and VF = 1 iff
\* Vy_old >= Vx_old
C9_SubtractFlags ==
  /\ Alu(5) =>
       /\ registers[LastOp.x] = (Vx_old - Vy_old) % 256
       /\ (registers[15] = 1) <=> (Vx_old >= Vy_old)
       /\ registers[15] \in {0, 1}
  /\ Alu(7) =>
       /\ registers[LastOp.x] = (Vy_old - Vx_old) % 256
       /\ (registers[15] = 1) <=> (Vy_old >= Vx_old)
       /\ registers[15] \in {0, 1}

\* V0 = 0x05, V1 = 0x0A, 8015: V0 = 0xFB, VF = 0
C9_Witness ==
  /\ Alu(5) /\ last.raw = \h8015 /\ Vx_old = 5 /\ Vy_old = 10
  /\ registers[0] = 251 /\ registers[15] = 0

C9_WitnessReverse ==
  /\ Alu(7) /\ last.raw = \h8017 /\ Vx_old = 5 /\ Vy_old = 5
  /\ registers[0] = 0 /\ registers[15] = 1

(***************************************************************************)
(* Timers.                                                                 *)
(***************************************************************************)
Lowered(timer) == IF timer > 0 THEN timer - 1 ELSE 0

\* a counter set to v, after calls of update_timers with no FX15/FX18 between
AfterCalls(timer, v, calls) ==
  IF calls < MaxCalls THEN timer = (IF v > calls THEN v - calls ELSE 0)
  ELSE timer <= (IF v > MaxCalls THEN v - MaxCalls ELSE 0)

\* C10: a call of update_timers lowers each timer by exactly 1 when it is
\* above 0 and leaves it at 0 otherwise, so it never rises; a timer set to v
\* holds max(v - k, 0) after k calls with no FX15/FX18 between
C10_TimerDecay ==
  /\ [][host = "timers" =>
          /\ delay_timer' = Lowered(delay_timer)
          /\ sound_timer' = Lowered(sound_timer)
          /\ delay_timer' <= delay_timer /\ sound_timer' <= sound_timer]_vars
  /\ [](timer_log.delay_armed =>
          AfterCalls(delay_timer, timer_log.delay_set, timer_log.delay_calls))
  /\ [](timer_log.sound_armed =>
          AfterCalls(sound_timer, timer_log.sound_set, timer_log.sound_calls))

\* delay = 3, nine calls later: delay = 0
C10_Witness ==
  /\ timer_log.delay_armed /\ timer_log.delay_set = 3 /\ timer_log.delay_calls = 9
  /\ delay_timer = 0

(***************************************************************************)
(* FX55 and FX65.                                                          *)
(***************************************************************************)
\* the latest cycle completed the word FXnn of family F
CompletedF(nn) == Completed(15) /\ last.raw % 256 = nn

\* the bytes of two memories agree outside the addresses in range
SameOutside(before, after, range) ==
  \A a \in (DOMAIN before \cup DOMAIN after) \ range : MemAt(before, a) = MemAt(after, a)

\* the latest two cycles were FX55 and then FX65 with the same x and I
StoreThenLoad ==
  /\ CompletedF(\h65) /\ prev.ran /\ prev.fetched /\ prev.res = Ok
  /\ Opcode_new(prev.raw).op_type = 15 /\ prev.raw % 256 = \h55
  /\ Opcode_new(prev.raw).x = LastOp.x
  /\ prev.i = last.i

\* C11: FX55 leaves memory[I + k] = Vk for k in 0..x and changes no other byte,
\* no register and not I; FX65 leaves Vk = memory[I + k] for k in 0..x and
\* changes no other register, no byte and not I; FX55 followed by FX65 with
\* the same x and I leaves every register as it was before the FX55
C11_StoreLoadRoundTrip ==
  /\ CompletedF(\h55) =>
       /\ \A k \in 0..LastOp.x : MemAt(memory, last.i + k) = last.registers[k]
       /\ SameOutside(last.memory, memory, last.i..(last.i + LastOp.x))
       /\ registers = last.registers /\ i = last.i
  /\ CompletedF(\h65) =>
       /\ \A k \in 0..LastOp.x : registers[k] = MemAt(last.memory, last.i + k)
       /\ \A k \in (LastOp.x + 1)..15 : registers[k] = last.registers[k]
       /\ memory = last.memory /\ i = last.i
  /\ StoreThenLoad => registers = prev.registers /\ i = prev.i

\* V0..V3 = 11, 22, 33, 44 (hex) stored at 0x300 and loaded back
C11_Witness ==
  /\ StoreThenLoad /\ last.raw = \hF365 /\ last.i = \h300
  /\ registers[0] = \h11 /\ registers[3] = \h44
  /\ MemAt(memory, \h300) = \h11 /\ MemAt(memory, \h303) = \h44 /\ MemAt(memory, \h304) = 0

(***************************************************************************)
(* Opcode::new.                                                            *)
(***************************************************************************)
\* the fields of the decoded word are the four nibbles of raw, nn its low
\* byte and nnn its low twelve bits
DecodedExactly(raw) ==
  LET opcode == Opcode_new(raw)
  IN  /\ opcode.raw = raw
      /\ opcode.op_type = raw \div 4096
      /\ opcode.x = (raw \div 256) % 16
      /\ opcode.y = (raw \div 16) % 16
      /\ opcode.n = raw % 16
      /\ {opcode.op_type, opcode.x, opcode.y, opcode.n} \subseteq 0..15
      /\ get_nn(opcode) = raw % 256
      /\ get_nnn(opcode) = raw % 4096
      /\ raw = opcode.op_type * 4096 + opcode.x * 256 + opcode.y * 16 + opcode.n

\* C12: Opcode::new yields op_type, x, y, n = the nibbles of raw from the top,
\* get_nn = raw mod 256 and get_nnn = raw mod 4096, for every word a cycle
\* fetches and for every raw in 0..0xFFFF; the decoder reads no state, so the
\* 65536 words are gone through in the states that follow the decode of 0xA2F0
C12_DecodeExact ==
  /\ (last.ran /\ last.fetched) => DecodedExactly(last.raw)
  /\ (last.ran /\ last.fetched /\ last.raw = \hA2F0) =>
       \A raw \in 0..65535 : DecodedExactly(raw)

\* decode(0xA2F0): opType = 0xA, x = 2, y = 0xF, n = 0, nn = 0xF0, nnn = 0x2F0
C12_Witness ==
  /\ last.ran /\ last.fetched /\ last.raw = \hA2F0 /\ last.res = Ok
  /\ LastOp.op_type = 10 /\ LastOp.x = 2 /\ LastOp.y = 15 /\ LastOp.n = 0
  /\ get_nn(LastOp) = \hF0 /\ get_nnn(LastOp) = \h2F0
  /\ i = \h2F0

(***************************************************************************)
(* The reserved region 0x000..0x1FF.                                       *)
(***************************************************************************)
\* memory below the program as load_font leaves it
ReservedImage == load_font(EmptyArray, FONT, FONT_SIZE)

\* C13: no cycle writes below 0x200: every byte of 0x000..0x1FF holds what it
\* held after load_font and load_rom
C13_ReservedRegionKept ==
  [a \in {a \in DOMAIN memory : a < ROM_START_ADDR} |-> memory[a]] @@ EmptyArray
    = ReservedImage

(***************************************************************************)
(* The index register: ANNN, FX1E, FX29.                                   *)
(***************************************************************************)
\* the sum FX1E forms before the mask
IndexSum == last.i + last.registers[LastOp.x]

\* C14: I <= 0xFFF in every state; ANNN leaves I = nnn, FX1E leaves
\* I = (I_old + Vx) mod 0x1000, FX29 leaves I in 0..0xFFF
C14_IndexTwelveBits ==
  /\ i \in 0..(MEMORY_SIZE - 1)
  /\ Completed(10) => i = last.raw % 4096
  /\ CompletedF(\h1E) => i = IndexSum % 4096
  /\ CompletedF(\h29) => i \in 0..(MEMORY_SIZE - 1)

\* I = 0xFFF, V0 = 2: I = 1 after F01E
C14_Witness ==
  /\ CompletedF(\h1E) /\ last.i = \hFFF /\ last.registers[LastOp.x] = 2
  /\ IndexSum = \h1001 /\ i = 1

\* C15: FX1E leaves VF = 1 when I_old + Vx >= 0x1000 and leaves VF as it was
\* when the sum is below 0x1000; no register other than VF is changed
C15_IndexAddFlag ==
  CompletedF(\h1E) =>
    /\ IndexSum >= \h1000 => registers[15] = 1
    /\ IndexSum < \h1000 => registers[15] = last.registers[15]
    /\ \A k \in 0..14 : registers[k] = last.registers[k]

\* VF = 5 before an addition that stays below 0x1000: VF = 5 after it
C15_Witness ==
  /\ CompletedF(\h1E) /\ last.registers[15] = 5 /\ LastOp.x = 0 /\ last.registers[0] = 3
  /\ IndexSum = \h103 /\ registers[15] = 5 /\ i = \h103

C15_WitnessSet ==
  /\ CompletedF(\h1E) /\ last.registers[15] = 0 /\ IndexSum = \h1000
  /\ registers[15] = 1 /\ i = 0

\* C16: FX29 leaves I = 0x50 + Vx * 5 for every 8-bit Vx, the product taken
\* without loss and without aborting
C16_FontAddressExact ==
  (Executed(15) /\ last.raw % 256 = \h29) =>
    /\ last.res = Ok
    /\ i = FONT_START_ADDR + last.registers[LastOp.x] * 5

(***************************************************************************)
(* Calls and returns.                                                      *)
(***************************************************************************)
ReturnExecuted == Executed(0) /\ last.raw % 256 = \hEE

\* C17: 2NNN at address a pushes a + 2 and sets PC = nnn, and never fails; 00EE
\* on a non-empty stack pops the value pushed last into PC; no other cycle
\* changes the stack; every stack entry is the address after a call
C17_CallReturn ==
  /\ Executed(2) =>
       /\ last.res = Ok
       /\ stack = Append(last.stack, last.addr + 2)
       /\ pc = last.raw % 4096
  /\ (ReturnExecuted /\ last.stack # << >>) =>
       /\ last.res = Ok
       /\ pc = last.stack[Len(last.stack)]
       /\ stack = SubSeq(last.stack, 1, Len(last.stack) - 1)
  /\ (last.ran /\ ~Executed(2) /\ ~ReturnExecuted) => stack = last.stack
  /\ \A k \in 1..Len(stack) :
       Opcode_new(FetchWord(memory, stack[k] - 2)).op_type = 2

\* calls at 0x200 and 0x204, then the inner return: back at 0x206 with the
\* outer return address 0x202 still on the stack
C17_Witness ==
  /\ ReturnExecuted /\ last.res = Ok
  /\ last.stack = << \h202, \h206 >> /\ last.addr = \h208
  /\ stack = << \h202 >> /\ pc = \h206

(***************************************************************************)
(* FX33.                                                                   *)
(***************************************************************************)
\* C18: FX33 leaves memory[I] = Vx div 100, memory[I+1] = (Vx div 10) mod 10,
\* memory[I+2] = Vx mod 10, writes no other byte and changes neither I nor a
\* register
C18_Bcd ==
  CompletedF(\h33) =>
    LET Vx == last.registers[LastOp.x]
    IN  /\ MemAt(memory, last.i) = Vx \div 100
        /\ MemAt(memory, last.i + 1) = (Vx \div 10) % 10
        /\ MemAt(memory, last.i + 2) = Vx % 10
        /\ 100 * MemAt(memory, last.i) + 10 * MemAt(memory, last.i + 1)
             + MemAt(memory, last.i + 2) = Vx
        /\ SameOutside(last.memory, memory, last.i..(last.i + 2))
        /\ i = last.i /\ registers = last.registers

\* Vx = 7 stored over the bytes 60 07 A2 of the program: 0, 0, 7
C18_Witness ==
  /\ CompletedF(\h33) /\ last.registers[LastOp.x] = 7 /\ last.i = \h200
  /\ MemAt(last.memory, \h200) = \h60 /\ MemAt(last.memory, \h202) = \hA2
  /\ MemAt(memory, \h200) = 0 /\ MemAt(memory, \h201) = 0 /\ MemAt(memory, \h202) = 7
  /\ MemAt(memory, \h203) = 0

C18_WitnessThreeDigits ==
  /\ CompletedF(\h33) /\ last.registers[LastOp.x] = 123 /\ last.i = \hFFD
  /\ MemAt(memory, \hFFD) = 1 /\ MemAt(memory, \hFFE) = 2 /\ MemAt(memory, \hFFF) = 3

(***************************************************************************)
(* The order of the advance of PC and the instruction.                     *)
(***************************************************************************)
\* the condition under which a word of family 3, 4, 5 or 9 skips
SkipCondition(opcode, regs) ==
  CASE opcode.op_type = 3 -> regs[opcode.x] = (opcode.raw % 256)
    [] opcode.op_type = 4 -> regs[opcode.x] # (opcode.raw % 256)
    [] opcode.op_type = 5 -> regs[opcode.x] = regs[opcode.y]
    [] opcode.op_type = 9 -> regs[opcode.x] # regs[opcode.y]

PcOrderStep ==
  LET opcode == Opcode_new(last'.raw)
  IN  last'.fetched =>
        /\ opcode.op_type \in {3, 4, 5, 9} =>
             /\ last'.res = Ok
             /\ pc' = (IF SkipCondition(opcode, registers) THEN pc + 4 ELSE pc + 2)
             /\ UNCHANGED << i, registers, stack, delay_timer, sound_timer, memory,
                             display_buffer, keys_pressed >>
        /\ opcode.op_type \in {1, 2} => pc' = opcode.raw % 4096
        /\ opcode.op_type = 11 => pc' = (opcode.raw % 4096) + registers[0]

\* C19: a conditional skip fetched at address a ends with PC = a + 4 when its
\* condition holds and PC = a + 2 otherwise and changes nothing else; 1NNN
\* and 2NNN end with PC = nnn and BNNN with PC = nnn + V0
C19_PcOrder == [][CycleStep => PcOrderStep]_vars

\* 4007 at 0x204 with V0 = 0: PC = 0x208
C19_Witness ==
  /\ Completed(4) /\ last.raw = \h4007 /\ last.registers[0] = 0 /\ last.addr = \h204
  /\ pc = \h208

C19_WitnessNoSkip ==
  /\ Completed(9) /\ last.raw = \h9010 /\ last.registers[0] = 7 /\ last.registers[1] = 7
  /\ last.addr = \h204 /\ pc = \h206

C19_WitnessJump ==
  /\ Completed(11) /\ last.raw = \hBF01 /\ last.registers[0] = 255 /\ pc = \h1000

(***************************************************************************)
(* EX9E and EXA1.                                                          *)
(***************************************************************************)
\* key number k of the keypad is held
Held(k) == keys_pressed[KEYS[k + 1]]

KeySkipStep ==
  LET opcode == Opcode_new(last'.raw)
      Vx == registers[opcode.x]
  IN  (last'.fetched /\ opcode.op_type = 14 /\ opcode.n \in {\h1, \hE} /\ Vx \in 0..15) =>
        /\ last'.res = Ok
        /\ opcode.n = \hE => pc' = (IF Held(Vx) THEN pc + 4 ELSE pc + 2)
        /\ opcode.n = \h1 => pc' = (IF ~Held(Vx) THEN pc + 4 ELSE pc + 2)
        /\ UNCHANGED << i, registers, stack, keys_pressed, delay_timer, sound_timer,
                        memory, display_buffer >>

\* C20: for Vx in 0..15, EX9E fetched at a ends with PC = a + 4 iff key Vx is
\* held and EXA1 ends with PC = a + 4 iff key Vx is not held, otherwise
\* PC = a + 2; neither changes a register, I, the stack or the key state
C20_KeySkips == [][CycleStep => KeySkipStep]_vars

\* key 2 held: E09E skips
C20_Witness ==
  /\ Completed(14) /\ last.raw = \hE09E /\ last.registers[0] = 2
  /\ last.keys_pressed["2"] /\ pc = last.addr + 4

C20_WitnessHeldNoSkip ==
  /\ Completed(14) /\ last.raw = \hE0A1 /\ last.registers[0] = 2
  /\ last.keys_pressed["2"] /\ pc = last.addr + 2

C20_WitnessReleased ==
  /\ Completed(14) /\ last.raw = \hEFA1 /\ last.registers[15] = 15
  /\ ~last.keys_pressed["F"] /\ last.keys_pressed["0"] /\ pc = last.addr + 4

(***************************************************************************)
(* The loop of main.                                                       *)
(***************************************************************************)
\* the latest run_cycle returned Err
Errored == last.ran /\ last.res.tag \in {"InvaidOpcode", "StackUnderflow"}

FrameProtocol ==
  /\ frame_calls.update_timers <= 1
  /\ frame_calls.render_frame <= 1
  /\ frame_calls.run_cycle <= instructions_per_second
  /\ frame_calls.run_cycle > 0 => frame_calls.update_timers = 1
  /\ (host = "render" \/ frame_calls.render_frame = 1) =>
       /\ frame_calls.update_timers = 1
       /\ frame_calls.run_cycle = instructions_per_second
       /\ ~Errored
  /\ Errored => exit = "error" /\ host = "exited" /\ frame_calls.render_frame = 0

\* C21: in an iteration of the loop main calls update_timers once, then
\* run_cycle at most N times, and render_frame only after N cycles that
\* returned Ok; when run_cycle returns Err main returns: nothing is called and
\* nothing changes after it
C21_HostLoop ==
  /\ []FrameProtocol
  /\ [][Errored => UNCHANGED vars]_vars

\* 6001 00EE: the second cycle of the first frame fails, main has returned
C21_Witness ==
  /\ Errored /\ last.res.tag = "StackUnderflow" /\ last.registers[0] = 1
  /\ frame_calls = [update_timers |-> 1, run_cycle |-> 2, render_frame |-> 0]
  /\ instructions_per_second = INSTRUCTIONS_PER_SECOND_DEFAULT
  /\ exit = "error" /\ host = "exited"

\* a frame of N = 2 cycles carried through
C21_WitnessFrame ==
  /\ host = "poll" /\ instructions_per_second = 2
  /\ frame_calls = [update_timers |-> 1, run_cycle |-> 2, render_frame |-> 1]

(***************************************************************************)
(* FX0A: which key is stored.                                              *)
(***************************************************************************)
HeldBefore == {k \in 0..(NUM_KEYS - 1) : last.keys_pressed[KEYS[k + 1]]}

\* C22: after FX0A with some key held Vx is the smallest index of a held key
\* and the other registers are as before; with no key held every register,
\* Vx too, is as before
C22_KeySelection ==
  CompletedF(\h0A) =>
    IF HeldBefore = {} THEN registers = last.registers
    ELSE registers = [last.registers EXCEPT
                        ![LastOp.x] = CHOOSE k \in HeldBefore : \A j \in HeldBefore : k <= j]

\* keys 2 and 5 held, F30A: V3 = 2
C22_Witness ==
  /\ CompletedF(\h0A) /\ last.raw = \hF30A /\ HeldBefore = {2, 5}
  /\ last.registers[3] = 0 /\ registers[3] = 2

\* V3 = 7 and no key held, F30A: V3 = 7 still
C22_WitnessNoKey ==
  /\ CompletedF(\h0A) /\ last.raw = \hF30A /\ HeldBefore = {}
  /\ last.registers[3] = 7 /\ registers[3] = 7

(***************************************************************************)
(* Family 8: the flag and the destination.                                 *)
(***************************************************************************)
Flagged == {4, 5, 6, 7, \hE}

\* the flag of a flagged operation, from the operands as they were
FlagOf(n, vx, vy) ==
  CASE n = 4 -> IF vx + vy > 255 THEN 1 ELSE 0
    [] n = 5 -> IF vx >= vy THEN 1 ELSE 0
    [] n = 6 -> vx % 2
    [] n = 7 -> IF vy >= vx THEN 1 ELSE 0
    [] n = \hE -> vx \div 128

\* C23: after 8XY4, 8XY5, 8XY6, 8XY7 and 8XYE, VF is the flag of the operands
\* as they were before the instruction, also when x = F; for x # F, 8XY6 leaves
\* Vx = Vx_old >> 1 and 8XYE leaves Vx = (Vx_old << 1) mod 256, whatever Vy
\* holds, and no register but Vx and VF changes
C23_FlagWriteWins ==
  (Completed(8) /\ LastOp.n \in Flagged) =>
    /\ registers[15] = FlagOf(LastOp.n, Vx_old, Vy_old)
    /\ registers[15] \in {0, 1}
    /\ (LastOp.x # 15 /\ LastOp.n = 6) => registers[LastOp.x] = Vx_old \div 2
    /\ (LastOp.x # 15 /\ LastOp.n = \hE) => registers[LastOp.x] = (Vx_old * 2) % 256
    /\ \A r \in 0..(NUM_REGISTERS - 1) \ {LastOp.x, 15} : registers[r] = last.registers[r]

\* VF = 0xFF, V1 = 0x01, 8F14: the sum is 0x00 and VF ends as the carry, 1
C23_Witness ==
  /\ Completed(8) /\ last.raw = \h8F14 /\ Vx_old = 255 /\ Vy_old = 1
  /\ registers[15] = 1

\* V0 = 0xFF, V1 = 0x80, 801E: V0 = 0xFE, VF = 1, V1 as it was
C23_WitnessShift ==
  /\ Completed(8) /\ last.raw = \h801E /\ Vx_old = 255 /\ Vy_old = 128
  /\ registers[0] = 254 /\ registers[15] = 1 /\ registers[1] = 128

(***************************************************************************)
(* The key codes handed to the input source.                               *)
(***************************************************************************)
\* C24: every key code a cycle passes to is_key_pressed lies in 0..15
C24_KeyCodesValid ==
  last.ran => \A k \in last.key_queries : k \in 0..(NUM_KEYS - 1)

====
